---- MODULE Spec2Model ----
(***************************************************************************)
(* Origin liveness computation of polonius-engine                          *)
(* (polonius-engine/src/output/liveness.rs).                               *)
(*                                                                         *)
(* compute_live_regions runs a datafrog Iteration over three datafrog      *)
(* Variables (var_live_at, var_drop_live_at, region_live_at);              *)
(* make_universal_region_live appends the universal regions;               *)
(* init_region_live_at composes the two.                                   *)
(*                                                                         *)
(* A datafrog Relation is a sorted, de-duplicated vector of tuples: it is  *)
(* represented by the set of its tuples, and turned back into a vector by  *)
(* enumerating the set in ascending tuple order.  A datafrog Variable is a *)
(* record [stable, recent, to_add] of such sets.                           *)
(***************************************************************************)
EXTENDS Naturals, Integers, Sequences, FiniteSets, TLC

(***************************************************************************)
(* Bounds of the model.                                                    *)
(***************************************************************************)
NumPoints == 3
NumVariables == 2
NumOrigins == 2
MaxFacts == 4
MaxLiveFacts == 3

Point == 0 .. (NumPoints - 1)
Variable == 0 .. (NumVariables - 1)
Origin == 0 .. (NumOrigins - 1)

(***************************************************************************)
(* Vectors and relations.                                                  *)
(***************************************************************************)
Range(s) == {s[i] : i \in 1 .. Len(s)}

\* Ord on pairs: lexicographic, as derived for Rust tuples.
PairLeq(a, b) == a[1] < b[1] \/ (a[1] = b[1] /\ a[2] <= b[2])

RECURSIVE SortedPairs(_)
\* The elements of a Relation (or the items of an iterator over it), in order.
SortedPairs(S) ==
    IF S = {} THEN <<>>
    ELSE LET m == CHOOSE x \in S : \A y \in S : PairLeq(x, y)
         IN  <<m>> \o SortedPairs(S \ {m})

RECURSIVE SortedPoints(_)
\* Iteration order of a BTreeSet<Point>.
SortedPoints(S) ==
    IF S = {} THEN <<>>
    ELSE LET m == CHOOSE x \in S : \A y \in S : x <= y
         IN  <<m>> \o SortedPoints(S \ {m})

\* A de-duplication that drops every copy of a repeated tuple.
RelationFromVecDropsRepeated(vec) ==
    {vec[i] : i \in {j \in 1 .. Len(vec) :
                        \A k \in 1 .. Len(vec) : k # j => vec[k] # vec[j]}}

\* Relation::from(Vec) and Relation::from_iter: sort, then dedup.
RelationFromVec(vec) == Range(vec)

Reverse(s) == [i \in 1 .. Len(s) |-> s[Len(s) + 1 - i]]

(***************************************************************************)
(* datafrog Variable: stable tuples, the tuples found new by the last      *)
(* changed(), and the tuples inserted since.                               *)
(***************************************************************************)
\* iteration.variable(name): a Variable without tuples.
NewVariable == [stable |-> {}, recent |-> {}, to_add |-> {}]

\* Variable::insert(relation): queue the tuples of relation.
Insert(var, rel) == [var EXCEPT !.to_add = @ \cup rel]

\* changed() that replaces the stable tuples by the recent ones.
ChangedReplacesStable(var) ==
    [stable |-> var.recent, recent |-> var.to_add \ var.recent, to_add |-> {}]

\* changed() that does not remove the stable tuples from the queued ones.
ChangedNotDistinct(var) ==
    [stable |-> var.stable \cup var.recent, recent |-> var.to_add, to_add |-> {}]

\* Variable::changed(): recent moves into stable; the queued tuples that are
\* not yet stable become recent.
Changed(var) ==
    LET st == var.stable \cup var.recent
    IN  [stable |-> st, recent |-> var.to_add \ st, to_add |-> {}]

\* A join over the stable tuples of input instead of the recent ones.
JoinRecentStable(var, rel) ==
    {<<kb[2], ka[2]>> : <<ka, kb>> \in
        {pr \in var.stable \X rel : pr[1][1] = pr[2][1]}}

\* Variable::from_join(input, relation, logic) where the second input is a
\* static Relation: join the recent tuples of input with relation on the
\* first component, (k, a) with (k, b) giving logic(k, a, b) = (b, a).
JoinRecent(var, rel) ==
    {<<kb[2], ka[2]>> : <<ka, kb>> \in
        {pr \in var.recent \X rel : pr[1][1] = pr[2][1]}}

\* ExtendWith leaper over rel keyed by k: the values v with (k, v) in rel.
ExtendWith(rel, k) == {t[2] : t \in {u \in rel : u[1] = k}}

\* treefrog::leapjoin for one source tuple: every leaper counts its
\* proposals (extend_anti never proposes), the leaper with the least count
\* (the first such) proposes, every other leaper intersects.
\* `withs` is the sequence of extend_with value sets, `antis` the set of
\* values excluded by the extend_anti leaper.
LeapValues(withs, antis) ==
    LET n == Len(withs)
        minCount == CHOOSE c \in {Cardinality(withs[i]) : i \in 1 .. n} :
                        \A i \in 1 .. n : c <= Cardinality(withs[i])
        minIndex == CHOOSE i \in 1 .. n :
                        /\ Cardinality(withs[i]) = minCount
                        /\ \A j \in 1 .. (i - 1) : Cardinality(withs[j]) > minCount
        proposed == IF minCount = 0 THEN {} ELSE withs[minIndex]
    IN  {v \in proposed :
            /\ \A i \in (1 .. n) \ {minIndex} : v \in withs[i]
            /\ v \notin antis}

(***************************************************************************)
(* The rules of compute_live_regions.                                      *)
(***************************************************************************)
\* cfg_edge_reverse_rel: (q, p) for every edge (p, q).
ReverseEdges(edges) == {<<e[2], e[1]>> : e \in edges}

\* var_maybe_initialized_on_entry(V, Q) :-
\*     var_maybe_initialized_on_exit(V, P), cfg_edge(P, Q).
MaybeInitializedOnEntry(on_exit, edges) ==
    UNION {{<<t[1], q>> : q \in LeapValues(<<ExtendWith(edges, t[2])>>, {})} :
           t \in on_exit}

\* A seed that does not ask for initialization on entry.
DropLiveSeedUnchecked(drop_used, on_entry) == drop_used

\* A seed that does not ask for a drop-use.
DropLiveSeedEntryOnly(drop_used, on_entry) == on_entry

\* var_drop_live(V, P) :- var_drop_used(V, P), var_maybe_initialized_on_entry(V, P).
DropLiveSeed(drop_used, on_entry) == drop_used \cap on_entry

\* The propagation rule evaluated over the stable tuples only.
LiveStepStable(var, defined, edges_rev) ==
    UNION {{<<t[1], p>> : p \in LeapValues(<<ExtendWith(edges_rev, t[2])>>,
                                           ExtendWith(defined, t[1]))} :
           t \in var.stable}

\* The propagation rule without its anti-join.
LiveStepNoKill(var, defined, edges_rev) ==
    UNION {{<<t[1], p>> : p \in LeapValues(<<ExtendWith(edges_rev, t[2])>>, {})} :
           t \in var.recent}

\* var_live(V, P) :- var_live(V, Q), cfg_edge(P, Q), !var_defined(V, P),
\* evaluated over the recent tuples of var_live.
LiveStep(var, defined, edges_rev) ==
    UNION {{<<t[1], p>> : p \in LeapValues(<<ExtendWith(edges_rev, t[2])>>,
                                           ExtendWith(defined, t[1]))} :
           t \in var.recent}

\* The drop rule without the var_maybe_initialized_on_exit leaper.
DropLiveStepNoInit(var, defined, edges_rev, on_exit) ==
    UNION {{<<t[1], p>> : p \in LeapValues(<<ExtendWith(edges_rev, t[2])>>,
                                           ExtendWith(defined, t[1]))} :
           t \in var.recent}

\* The drop rule evaluated over the stable tuples only.
DropLiveStepStable(var, defined, edges_rev, on_exit) ==
    UNION {{<<t[1], p>> : p \in LeapValues(<<ExtendWith(edges_rev, t[2]),
                                             ExtendWith(on_exit, t[1])>>,
                                           ExtendWith(defined, t[1]))} :
           t \in var.stable}

\* var_drop_live(V, P) :- var_drop_live(V, Q), cfg_edge(P, Q),
\*     !var_defined(V, P), var_maybe_initialized_on_exit(V, P),
\* evaluated over the recent tuples of var_drop_live.
DropLiveStep(var, defined, edges_rev, on_exit) ==
    UNION {{<<t[1], p>> : p \in LeapValues(<<ExtendWith(edges_rev, t[2]),
                                             ExtendWith(on_exit, t[1])>>,
                                           ExtendWith(defined, t[1]))} :
           t \in var.recent}

(***************************************************************************)
(* Debug export and result extraction.                                     *)
(***************************************************************************)
\* An export that overwrites the entry of a location.
PushEntryOverwrites(map, location, var) ==
    [l \in (DOMAIN map) \cup {location} |->
        IF l = location THEN <<var>> ELSE map[l]]

\* map.entry(location).or_insert_with(Vec::new).push(var)
PushEntry(map, location, var) ==
    IF location \in DOMAIN map
    THEN [map EXCEPT ![location] = Append(@, var)]
    ELSE [l \in (DOMAIN map) \cup {location} |->
            IF l = location THEN <<var>> ELSE map[l]]

RECURSIVE DumpInto(_, _)
\* for &(var, location) in &relation.elements { push var at location }
DumpInto(map, elements) ==
    IF elements = <<>> THEN map
    ELSE DumpInto(PushEntry(map, Head(elements)[2], Head(elements)[1]),
                  Tail(elements))

\* Variable::complete(): legal only when nothing is recent or queued.
CanComplete(var) == var.recent = {} /\ var.to_add = {}
Complete(var) == var.stable

\* region_live_at_rel.iter().map(|&((r, p), _)| (r, p)).collect()
CollectPairs(rel) == SortedPairs(rel)

\* Every point from the least to the greatest endpoint.
AllPointsInterval(edges) ==
    LET ends == {edges[i][1] : i \in 1 .. Len(edges)}
                    \cup {edges[i][2] : i \in 1 .. Len(edges)}
    IN  {p \in Point : \E a \in ends : \E b \in ends : a <= p /\ p <= b}

\* The sources of the edges only.
AllPointsSources(edges) == {edges[i][1] : i \in 1 .. Len(edges)}

\* all_points of make_universal_region_live: sources chained with targets,
\* collected into a BTreeSet.
AllPoints(edges) ==
    {edges[i][1] : i \in 1 .. Len(edges)} \cup {edges[i][2] : i \in 1 .. Len(edges)}

RECURSIVE PushRegions(_, _, _)
\* for &r in &universal_region { for &p in &all_points { push((r, p)) } }
PushRegions(vec, regions, points) ==
    IF regions = <<>> THEN vec
    ELSE PushRegions(vec \o [i \in 1 .. Len(points) |-> <<Head(regions), points[i]>>],
                     Tail(regions), points)

\* An expansion that sorts and de-duplicates the whole vector.
MakeUniversalRegionLiveSorted(vec, edges, regions) ==
    SortedPairs(Range(PushRegions(vec, regions, SortedPoints(AllPoints(edges)))))

\* The expansion over the sources chained with the targets, not collected
\* into a set.
MakeUniversalRegionLiveChained(vec, edges, regions) ==
    PushRegions(vec, regions,
                [i \in 1 .. Len(edges) |-> edges[i][1]]
                    \o [i \in 1 .. Len(edges) |-> edges[i][2]])

MakeUniversalRegionLive(vec, edges, regions) ==
    PushRegions(vec, regions, SortedPoints(AllPoints(edges)))

(***************************************************************************)
(* State.                                                                  *)
(***************************************************************************)
VARIABLES
    var_used, var_drop_used, var_defined,           \* Vec<(Variable, Point)>
    var_uses_region, var_drops_region,              \* Vec<(Variable, Origin)>
    cfg_edge,                                       \* [(Point, Point)]
    var_maybe_initialized_on_exit,                  \* Vec<(Variable, Point)>
    universal_region,                               \* Vec<Origin>
    output,                                         \* Output: dump_enabled and the two maps
    var_live_var, var_drop_live_var, region_live_at_var,   \* datafrog Variables
    rounds,                                         \* executions of the loop body
    region_live_at,                                 \* the Vec<(Origin, Point)> returned
    pc,                                             \* position in init_region_live_at
    call,                                           \* 1 for the first call, 2 for the repeated one
    first                                           \* what the first call returned, its rounds and its dump_enabled

inputs == <<var_used, var_drop_used, var_defined, var_uses_region,
            var_drops_region, cfg_edge, var_maybe_initialized_on_exit,
            universal_region>>
engine == <<var_live_var, var_drop_live_var, region_live_at_var, rounds>>
vars == <<inputs, output, engine, region_live_at, pc, call, first>>

\* The static relations of compute_live_regions.
var_defined_rel == RelationFromVec(var_defined)
cfg_edge_rel == RelationFromVec(cfg_edge)
cfg_edge_reverse_rel == ReverseEdges(RelationFromVec(cfg_edge))
var_uses_region_rel == RelationFromVec(var_uses_region)
var_drops_region_rel == RelationFromVec(var_drops_region)
var_maybe_initialized_on_exit_rel == RelationFromVec(var_maybe_initialized_on_exit)
var_drop_used_rel == RelationFromVec(var_drop_used)

(***************************************************************************)
(* Inputs: at most MaxFacts facts over the identifier domains.             *)
(***************************************************************************)
AllFacts ==
    ({"var_used", "var_drop_used", "var_defined", "var_maybe_initialized_on_exit"}
        \X Variable \X Point)
    \cup ({"var_uses_region", "var_drops_region"} \X Variable \X Origin)
    \cup ({"cfg_edge"} \X Point \X Point)
    \cup ({"universal_region"} \X Origin \X {0})

RECURSIVE FactSets(_)
\* The sets of at most k facts.
FactSets(k) ==
    IF k = 0 THEN {{}}
    ELSE LET smaller == FactSets(k - 1)
         IN  smaller \cup {s \cup {f} : s \in smaller, f \in AllFacts}

FactsOf(F, name) == {<<f[2], f[3]>> : f \in {g \in F : g[1] = name}}

EmptyOutput(dump) ==
    [dump_enabled |-> dump, var_live_at |-> <<>>, var_drop_live_at |-> <<>>]

\* The state on entry to init_region_live_at, for at most k facts; the
\* debug export is off, as in test_fn's Output::compute(.., false).
InitFacts(k) ==
    \E F \in FactSets(k) :
        /\ var_used = SortedPairs(FactsOf(F, "var_used"))
        /\ var_drop_used = SortedPairs(FactsOf(F, "var_drop_used"))
        /\ var_defined = SortedPairs(FactsOf(F, "var_defined"))
        /\ var_uses_region = SortedPairs(FactsOf(F, "var_uses_region"))
        /\ var_drops_region = SortedPairs(FactsOf(F, "var_drops_region"))
        /\ cfg_edge = SortedPairs(FactsOf(F, "cfg_edge"))
        /\ var_maybe_initialized_on_exit =
               SortedPairs(FactsOf(F, "var_maybe_initialized_on_exit"))
        /\ universal_region =
               SortedPoints({f[1] : f \in FactsOf(F, "universal_region")})
        /\ output = EmptyOutput(FALSE)
        /\ var_live_var = NewVariable
        /\ var_drop_live_var = NewVariable
        /\ region_live_at_var = NewVariable
        /\ rounds = 0
        /\ region_live_at = <<>>
        /\ pc = "start"
        /\ call = 1
        /\ first = [region_live_at |-> <<>>, computed |-> <<>>, rounds |-> 0,
                     dump_enabled |-> FALSE]

Init == InitFacts(MaxFacts)

(***************************************************************************)
(* compute_live_regions.                                                   *)
(***************************************************************************)
\* Seeding that lets a definition kill a use at the same point.
StartSeedKilled ==
    /\ pc = "start"
    /\ var_live_var' = Insert(NewVariable, RelationFromVec(var_used) \ var_defined_rel)
    /\ var_drop_live_var' =
           Insert(NewVariable,
                  DropLiveSeed(var_drop_used_rel,
                               MaybeInitializedOnEntry(var_maybe_initialized_on_exit_rel,
                                                       cfg_edge_rel)))
    /\ region_live_at_var' = NewVariable
    /\ rounds' = 0
    /\ pc' = "loop"
    /\ UNCHANGED <<inputs, output, region_live_at, call, first>>

\* Lines 33-79: the Iteration, its Variables and the seeds.
Start ==
    /\ pc = "start"
    /\ var_live_var' = Insert(NewVariable, RelationFromVec(var_used))
    /\ var_drop_live_var' =
           Insert(NewVariable,
                  DropLiveSeed(var_drop_used_rel,
                               MaybeInitializedOnEntry(var_maybe_initialized_on_exit_rel,
                                                       cfg_edge_rel)))
    /\ region_live_at_var' = NewVariable
    /\ rounds' = 0
    /\ pc' = "loop"
    /\ UNCHANGED <<inputs, output, region_live_at, call, first>>

\* A loop test that does not watch var_drop_live_at.
IterationChangedDropUnwatched(l, d, r) == l.recent # {} \/ r.recent # {}

\* A loop test that watches the two recursive Variables only.
IterationChangedRecursiveOnly(l, d, r) == l.recent # {} \/ d.recent # {}

\* iteration.changed(): every Variable of the Iteration is advanced; true
\* when one of them has recent tuples.
IterationChanged(l, d, r) == l.recent # {} \/ d.recent # {} \/ r.recent # {}

\* Lines 81-124: iteration.changed() is true, the loop body runs once.
Round ==
    /\ pc = "loop"
    /\ LET l == Changed(var_live_var)
           d == Changed(var_drop_live_var)
           r == Changed(region_live_at_var)
       IN  /\ IterationChanged(l, d, r)
           /\ region_live_at_var' =
                  Insert(Insert(r, JoinRecent(d, var_drops_region_rel)),
                         JoinRecent(l, var_uses_region_rel))
           /\ var_live_var' = Insert(l, LiveStep(l, var_defined_rel, cfg_edge_reverse_rel))
           /\ var_drop_live_var' =
                  Insert(d, DropLiveStep(d, var_defined_rel, cfg_edge_reverse_rel,
                                         var_maybe_initialized_on_exit_rel))
    /\ rounds' = rounds + 1
    /\ UNCHANGED <<inputs, output, region_live_at, pc, call, first>>

\* An export that does not look at dump_enabled.
DumpAlways(out, l, d) ==
    [out EXCEPT
        !.var_drop_live_at = DumpInto(@, SortedPairs(Complete(d))),
        !.var_live_at = DumpInto(@, SortedPairs(Complete(l)))]

\* Lines 134-152: the debug export.
Dump(out, l, d) ==
    IF out.dump_enabled
    THEN [out EXCEPT
            !.var_drop_live_at = DumpInto(@, SortedPairs(Complete(d))),
            !.var_live_at = DumpInto(@, SortedPairs(Complete(l)))]
    ELSE out

\* Lines 81, 126-157: iteration.changed() is false, the loop is left, the
\* relations are completed, exported and collected.
Finish ==
    /\ pc = "loop"
    /\ LET l == Changed(var_live_var)
           d == Changed(var_drop_live_var)
           r == Changed(region_live_at_var)
       IN  /\ ~IterationChanged(l, d, r)
           /\ var_live_var' = l
           /\ var_drop_live_var' = d
           /\ region_live_at_var' = r
           /\ IF /\ CanComplete(r)
                 /\ output.dump_enabled => CanComplete(l) /\ CanComplete(d)
              THEN /\ output' = Dump(output, l, d)
                   /\ region_live_at' = CollectPairs(Complete(r))
                   /\ pc' = "computed"
              ELSE /\ pc' = "panic"
                   /\ UNCHANGED <<output, region_live_at>>
    /\ UNCHANGED <<inputs, rounds, call, first>>

(***************************************************************************)
(* init_region_live_at, lines 204-206.                                     *)
(***************************************************************************)
Expand ==
    /\ pc = "computed"
    /\ region_live_at' = MakeUniversalRegionLive(region_live_at, cfg_edge, universal_region)
    /\ pc' = "done"
    /\ UNCHANGED <<inputs, output, engine, call, first>>

(***************************************************************************)
(* A second call on the same facts: supplied in reverse order, supplied    *)
(* twice over, or with the debug export switched.                          *)
(***************************************************************************)
Modes == {"reversed", "doubled", "dump"}

Arrange(mode, vec) ==
    CASE mode = "reversed" -> Reverse(vec)
      [] mode = "doubled" -> vec \o vec
      [] OTHER -> vec

Again ==
    /\ pc = "done"
    /\ call = 1
    /\ \E mode \in Modes :
        /\ var_used' = Arrange(mode, var_used)
        /\ var_drop_used' = Arrange(mode, var_drop_used)
        /\ var_defined' = Arrange(mode, var_defined)
        /\ var_uses_region' = Arrange(mode, var_uses_region)
        /\ var_drops_region' = Arrange(mode, var_drops_region)
        /\ cfg_edge' = Arrange(mode, cfg_edge)
        /\ var_maybe_initialized_on_exit' = Arrange(mode, var_maybe_initialized_on_exit)
        /\ universal_region' = Arrange(mode, universal_region)
        /\ output' = EmptyOutput(IF mode = "dump" THEN ~output.dump_enabled
                                 ELSE output.dump_enabled)
    /\ first' = [region_live_at |-> region_live_at,
                  computed |-> CollectPairs(Complete(region_live_at_var)),
                  rounds |-> rounds,
                  dump_enabled |-> output.dump_enabled]
    /\ call' = 2
    /\ var_live_var' = NewVariable
    /\ var_drop_live_var' = NewVariable
    /\ region_live_at_var' = NewVariable
    /\ rounds' = 0
    /\ region_live_at' = <<>>
    /\ pc' = "start"

Next == Start \/ Round \/ Finish \/ Expand \/ Again

Spec == Init /\ [][Next]_vars

\* One call, run as the sequential program it is: a step that can be taken
\* is taken.
Once == Start \/ Round \/ Finish \/ Expand

LiveInit == InitFacts(MaxLiveFacts)

LiveSpec == LiveInit /\ [][Once]_vars /\ WF_vars(Once)

(***************************************************************************)
(* Properties.                                                             *)
(***************************************************************************)
Returned == pc \in {"computed", "done"}

\* The relations at the fixpoint.
FinalVarLiveAt == Complete(var_live_var)
FinalVarDropLiveAt == Complete(var_drop_live_var)
FinalRegionLiveAt == Complete(region_live_at_var)

\* Every tuple a Variable holds so far.
Tuples(var) == var.stable \cup var.recent \cup var.to_add

Edges == Range(cfg_edge)
HasCycle == \E e \in Edges : <<e[2], e[1]>> \in Edges

\* C1: every call that starts ends with init_region_live_at returning: the
\* loop stops and no completion fails.
Termination == (pc = "start") ~> (pc = "done")

\* A call over a cyclic graph that took two rounds and returned.
TerminationWitness == pc = "done" /\ HasCycle /\ rounds >= 2

\* C2: at the fixpoint var_live_at is closed under backward propagation:
\* (V, Q) live, (P, Q) an edge and (V, P) not defined give (V, P) live.
PropagationSoundness ==
    Returned =>
        \A t \in FinalVarLiveAt : \A e \in Edges :
            (e[2] = t[2] /\ <<t[1], e[1]>> \notin Range(var_defined))
                => <<t[1], e[1]>> \in FinalVarLiveAt

\* Liveness went round a cycle of two points to a point without a use.
PropagationWitness ==
    /\ pc = "done"
    /\ \E e \in Edges :
        /\ e[1] # e[2]
        /\ <<e[2], e[1]>> \in Edges
        /\ \E t \in FinalVarLiveAt : t[2] = e[1] /\ t \notin Range(var_used)

\* C3: a variable defined and not used at P is never live at P, in no
\* round and not at the end, and every live region pair comes from a live
\* or drop-live variable that uses or drops the region.
KillCorrectness ==
    /\ \A t \in Range(var_defined) \ Range(var_used) :
        /\ t \notin Tuples(var_live_var)
        /\ Returned => t \notin FinalVarLiveAt
    /\ \A rp \in Tuples(region_live_at_var) :
        \/ \E t \in Tuples(var_live_var) :
              t[2] = rp[2] /\ <<t[1], rp[1]>> \in Range(var_uses_region)
        \/ \E t \in Tuples(var_drop_live_var) :
              t[2] = rp[2] /\ <<t[1], rp[1]>> \in Range(var_drops_region)

\* A definition at P, a live successor of P (P itself included), and the
\* variable not live at P when the call returns.
KillWitness ==
    /\ pc = "done"
    /\ \E t \in Range(var_defined) \ Range(var_used) :
        /\ \E e \in Edges : e[1] = t[2] /\ <<t[1], e[2]>> \in FinalVarLiveAt
        /\ t \notin FinalVarLiveAt

\* C4: every used (V, P) is live at the fixpoint.
BaseSoundness == Returned => Range(var_used) \subseteq FinalVarLiveAt

\* A use at a point that also defines the variable and lies on no edge.
BaseWitness ==
    /\ pc = "done"
    /\ Edges # {}
    /\ \E t \in Range(var_used) \cap Range(var_defined) :
        /\ \A e \in Edges : e[1] # t[2] /\ e[2] # t[2]
        /\ t \in FinalVarLiveAt

\* C5: every universal region is returned at every endpoint of every edge.
UniversalCoverage ==
    pc = "done" =>
        \A r \in Range(universal_region) : \A e \in Edges :
            /\ <<r, e[1]>> \in Range(region_live_at)
            /\ <<r, e[2]>> \in Range(region_live_at)

\* A universal region that no rule derives, at the target of an edge whose
\* target is no source.
UniversalWitness ==
    /\ pc = "done"
    /\ \E r \in Range(universal_region) : \E e \in Edges :
        /\ \A f \in Edges : f[1] # e[2]
        /\ <<r, e[2]>> \notin FinalRegionLiveAt
        /\ <<r, e[2]>> \in Range(region_live_at)

Monotonicity ==
    [][pc' # "start" =>
        /\ Tuples(var_live_var) \subseteq Tuples(var_live_var)'
        /\ Tuples(var_drop_live_var) \subseteq Tuples(var_drop_live_var)'
        /\ Tuples(region_live_at_var) \subseteq Tuples(region_live_at_var)'
        /\ Range(region_live_at) \subseteq Range(region_live_at')
        /\ pc' \in {"computed", "done"} =>
            /\ Tuples(var_live_var) \subseteq FinalVarLiveAt'
            /\ Tuples(var_drop_live_var) \subseteq FinalVarDropLiveAt'
            /\ Tuples(region_live_at_var) \subseteq Range(region_live_at')
      ]_vars

\* A call of three rounds in which var_live_at grew beyond its seeds and
\* region_live_at grew.
MonotonicityWitness ==
    /\ pc = "done"
    /\ rounds >= 3
    /\ FinalVarLiveAt # Range(var_used)
    /\ FinalRegionLiveAt # {}

\* The variables and points occurring in the input relations.
VariablePointFacts ==
    Range(var_used) \cup Range(var_drop_used) \cup Range(var_defined)
        \cup Range(var_maybe_initialized_on_exit)
OccurringVariables ==
    {t[1] : t \in VariablePointFacts \cup Range(var_uses_region)
                    \cup Range(var_drops_region)}
OccurringPoints ==
    {t[2] : t \in VariablePointFacts} \cup {e[1] : e \in Edges} \cup {e[2] : e \in Edges}
VariableTimesPoint == Cardinality(OccurringVariables) * Cardinality(OccurringPoints)

\* C8 as claimed: the loop body runs at most |Variable| x |Point| times.
RoundBound == rounds <= VariableTimesPoint

\* C8, amended: the loop body runs at most |Variable| x |Point| + 1 times
\* (the round that finds region_live_at's last tuples stable is counted).
RoundBoundPlusOne == rounds <= VariableTimesPoint + 1

\* A call that took exactly |Variable| x |Point| + 1 rounds.
RoundBoundWitness ==
    /\ pc = "done"
    /\ VariableTimesPoint >= 2
    /\ rounds = VariableTimesPoint + 1

NoDuplicates(vec) ==
    \A i \in 1 .. Len(vec) : \A j \in 1 .. Len(vec) : i # j => vec[i] # vec[j]

\* C9 as claimed: init_region_live_at returns no pair twice.
OutputIsSet == pc = "done" => NoDuplicates(region_live_at)

\* No universal region is listed twice or rule-derived at an edge endpoint.
UniversalDisjoint ==
    /\ NoDuplicates(universal_region)
    /\ \A rp \in FinalRegionLiveAt :
        ~(rp[1] \in Range(universal_region) /\ rp[2] \in AllPoints(cfg_edge))

\* C9, amended: compute_live_regions returns no pair twice, and
\* init_region_live_at returns no pair twice when no universal region is
\* listed twice or rule-derived live at an edge endpoint.
OutputIsSetWhenDisjoint ==
    /\ pc = "computed" => NoDuplicates(region_live_at)
    /\ (pc = "done" /\ UniversalDisjoint) => NoDuplicates(region_live_at)

\* A returned vector of rule-derived and expanded pairs, the expanded ones
\* over a point that is a target and a source.
OutputIsSetWitness ==
    /\ pc = "done"
    /\ UniversalDisjoint
    /\ universal_region # <<>>
    /\ \E e \in Edges : \E f \in Edges : e[2] = f[1]
    /\ FinalRegionLiveAt # {}

\* C10: a second call on the same facts with dump_enabled switched returns
\* what the first returned, from compute_live_regions and from
\* init_region_live_at, after as many rounds, and fails no completion.
DebugNoninterference ==
    (call = 2 /\ output.dump_enabled # first.dump_enabled) =>
        /\ pc # "panic"
        /\ pc = "computed" =>
              region_live_at = first.computed /\ rounds = first.rounds
        /\ pc = "done" =>
              region_live_at = first.region_live_at /\ rounds = first.rounds

\* A second call that exported live variables at two points and returned
\* rule-derived pairs.
DebugWitness ==
    /\ call = 2
    /\ pc = "done"
    /\ output.dump_enabled
    /\ Cardinality(DOMAIN output.var_live_at) >= 2
    /\ FinalRegionLiveAt # {}

\* The pairs rules 4 and 5 give for relations live and drop.
RegionsOf(live, drop) ==
    {<<ur[2], t[2]>> : <<t, ur>> \in
        {pr \in live \X Range(var_uses_region) : pr[1][1] = pr[2][1]}}
    \cup
    {<<dr[2], t[2]>> : <<t, dr>> \in
        {pr \in drop \X Range(var_drops_region) : pr[1][1] = pr[2][1]}}

\* C11: what compute_live_regions returns is exactly the pairs (R, P) with
\* a V live at P using R or a V drop-live at P dropping R, at the fixpoint.
RegionExact ==
    /\ Returned => FinalRegionLiveAt = RegionsOf(FinalVarLiveAt, FinalVarDropLiveAt)
    /\ pc = "computed" =>
          Range(region_live_at) = RegionsOf(FinalVarLiveAt, FinalVarDropLiveAt)

\* A returned pair that comes from a var_live tuple found by propagation,
\* and a live variable that uses no region.
RegionExactWitness ==
    /\ pc = "computed"
    /\ \E t \in FinalVarLiveAt \ Range(var_used) :
          \E ur \in Range(var_uses_region) :
              ur[1] = t[1] /\ <<ur[2], t[2]>> \in Range(region_live_at)
    /\ \E t \in FinalVarLiveAt : \A ur \in Range(var_uses_region) : ur[1] # t[1]

\* Rule 3 over the input facts: a drop-use at P with a predecessor Q of P
\* on whose exit the variable may be initialized.
DropSeeds ==
    {t \in Range(var_drop_used) :
        \E e \in Edges :
            e[2] = t[2] /\ <<t[1], e[1]>> \in Range(var_maybe_initialized_on_exit)}

\* C12: before the first round var_drop_live holds exactly the drop-uses
\* whose point has a predecessor with the variable maybe-initialized on exit.
DropSeedExact ==
    (pc = "loop" /\ rounds = 0) =>
        /\ var_drop_live_var.to_add = DropSeeds
        /\ var_drop_live_var.stable = {}
        /\ var_drop_live_var.recent = {}

\* One drop-use seeded and one not, at a point that has an incoming edge.
DropSeedWitness ==
    /\ pc = "loop"
    /\ rounds = 0
    /\ var_drop_live_var.to_add # {}
    /\ \E t \in Range(var_drop_used) \ var_drop_live_var.to_add :
          \E e \in Edges : e[2] = t[2]

\* One application of rule 7 to a whole relation.
DropRule(drop) ==
    {<<t[1], e[1]>> : <<t, e>> \in
        {pr \in drop \X Edges :
            /\ pr[2][2] = pr[1][2]
            /\ <<pr[1][1], pr[2][1]>> \notin Range(var_defined)
            /\ <<pr[1][1], pr[2][1]>> \in Range(var_maybe_initialized_on_exit)}}

RECURSIVE DropClosure(_)
\* The least set that contains drop and is closed under rule 7.
DropClosure(drop) ==
    IF DropRule(drop) \subseteq drop THEN drop
    ELSE DropClosure(drop \cup DropRule(drop))

\* C13: the final var_drop_live_at is the least set that holds the seeds
\* and is closed under rule 7; a tuple that is no seed is maybe-initialized
\* on exit, not defined, and has a drop-live successor.
DropPropagationExact ==
    Returned =>
        /\ FinalVarDropLiveAt = DropClosure(DropSeeds)
        /\ \A t \in FinalVarDropLiveAt \ DropSeeds :
            /\ t \in Range(var_maybe_initialized_on_exit)
            /\ t \notin Range(var_defined)
            /\ \E e \in Edges : e[1] = t[2] /\ <<t[1], e[2]>> \in FinalVarDropLiveAt

\* A drop-live tuple that is no seed, and a predecessor of a drop-live
\* point that rule 7 leaves out.
DropPropagationWitness ==
    /\ pc = "done"
    /\ FinalVarDropLiveAt \ DropSeeds # {}
    /\ \E t \in FinalVarDropLiveAt : \E e \in Edges :
          e[2] = t[2] /\ <<t[1], e[1]>> \notin FinalVarDropLiveAt

\* One application of rule 6 to a whole relation.
LiveRule(live) ==
    {<<t[1], e[1]>> : <<t, e>> \in
        {pr \in live \X Edges :
            /\ pr[2][2] = pr[1][2]
            /\ <<pr[1][1], pr[2][1]>> \notin Range(var_defined)}}

RECURSIVE NaiveRounds(_)
\* Rules 4 to 7 applied to the complete relations, round after round, until
\* a round changes nothing.
NaiveRounds(rel) ==
    LET next == [live |-> rel.live \cup LiveRule(rel.live),
                 drop |-> rel.drop \cup DropRule(rel.drop),
                 region |-> rel.region \cup RegionsOf(rel.live, rel.drop)]
    IN  IF next = rel THEN rel ELSE NaiveRounds(next)

NaiveFixpoint ==
    NaiveRounds([live |-> Range(var_used), drop |-> DropSeeds, region |-> {}])

\* C14: the relations the delta-driven rounds reach are those of the full
\* recomputation of rules 4 to 7 to its fixpoint.
DeltaRefinesNaive ==
    Returned =>
        /\ FinalVarLiveAt = NaiveFixpoint.live
        /\ FinalVarDropLiveAt = NaiveFixpoint.drop
        /\ FinalRegionLiveAt = NaiveFixpoint.region

\* A call in which var_live_at and var_drop_live_at both grew beyond their
\* seeds over several rounds.
DeltaWitness ==
    /\ pc = "done"
    /\ rounds >= 2
    /\ FinalVarLiveAt \ Range(var_used) # {}
    /\ FinalVarDropLiveAt \ DropSeeds # {}

\* The tuples a Variable got in the last round that were not known before.
NewTuples(var) == var.to_add \ (var.stable \cup var.recent)

\* C15 as claimed: after a round that adds no new tuple to var_live and
\* var_drop_live no further round runs, whatever region_live_at gained.
ExitOnRecursiveOnly ==
    [][(/\ pc = "loop"
        /\ rounds >= 1
        /\ NewTuples(var_live_var) = {}
        /\ NewTuples(var_drop_live_var) = {}) => rounds' = rounds]_vars

\* C15, amended: the loop stops after the first round that adds no new
\* tuple to any of var_live, var_drop_live and region_live_at; a round that
\* adds new tuples to region_live_at alone is followed by a further round.
ExitOnAllThree ==
    [][pc = "loop" =>
        IF /\ NewTuples(var_live_var) = {}
           /\ NewTuples(var_drop_live_var) = {}
           /\ NewTuples(region_live_at_var) = {}
        THEN rounds' = rounds /\ pc' = "computed"
        ELSE rounds' = rounds + 1 /\ pc' = "loop"]_vars

\* A further round that ran because region_live_at alone had new tuples.
ExitWitness ==
    /\ pc = "loop"
    /\ rounds >= 3
    /\ var_live_var.recent = {}
    /\ var_drop_live_var.recent = {}
    /\ region_live_at_var.recent # {}

\* The points that are source or target of an edge.
Endpoints == {e[1] : e \in Edges} \cup {e[2] : e \in Edges}

\* The part of the returned vector that make_universal_region_live added.
Appended ==
    SubSeq(region_live_at, Cardinality(FinalRegionLiveAt) + 1, Len(region_live_at))

\* C16: the pairs the expander appends are exactly universal_region x
\* edge endpoints, and a universal region that no var_uses_region or
\* var_drops_region fact names is returned at edge endpoints only.
ExpanderExact ==
    pc = "done" =>
        /\ Range(Appended) = Range(universal_region) \X Endpoints
        /\ Len(Appended) = Len(universal_region) * Cardinality(Endpoints)
        /\ \A rp \in Range(region_live_at) :
            (/\ rp[1] \in Range(universal_region)
             /\ \A t \in Range(var_uses_region) \cup Range(var_drops_region) :
                    t[2] # rp[1])
                => rp[2] \in Endpoints

\* A universal region that no fact names, edges, and a variable used at a
\* point that lies between the endpoints and on no edge.
ExpanderWitness ==
    /\ pc = "done"
    /\ Appended # <<>>
    /\ \E r \in Range(universal_region) :
          \A t \in Range(var_uses_region) \cup Range(var_drops_region) : t[2] # r
    /\ \E t \in Range(var_used) :
          /\ t[2] \notin Endpoints
          /\ \E a \in Endpoints : \E b \in Endpoints : a < t[2] /\ t[2] < b

\* C17: the expander runs once compute_live_regions has returned, keeps
\* the returned vector as a prefix of the result, in content and order,
\* and nothing but these two steps writes the result.
Concatenation ==
    [][/\ pc = "computed" =>
            /\ pc' = "done"
            /\ CanComplete(var_live_var) /\ CanComplete(var_drop_live_var)
            /\ CanComplete(region_live_at_var)
            /\ Len(region_live_at') >= Len(region_live_at)
            /\ SubSeq(region_live_at', 1, Len(region_live_at)) = region_live_at
            /\ region_live_at = CollectPairs(FinalRegionLiveAt)
            /\ UNCHANGED engine
       /\ (pc \in {"start", "done", "panic"} \/ pc' = "loop") =>
            (region_live_at' = region_live_at \/ pc' = "start")
      ]_vars

\* A result in which a rule-derived pair precedes an appended pair of a
\* lesser origin.
ConcatenationWitness ==
    /\ pc = "done"
    /\ FinalRegionLiveAt # {}
    /\ Appended # <<>>
    /\ ~PairLeq(region_live_at[1], region_live_at[Len(region_live_at)])

\* The map from the points of rel to the list map gives must hold exactly
\* the variables of rel at each point, each once.
ExportsExactly(map, rel) ==
    /\ DOMAIN map = {t[2] : t \in rel}
    /\ \A p \in DOMAIN map :
        /\ Range(map[p]) = {t[1] : t \in {u \in rel : u[2] = p}}
        /\ NoDuplicates(map[p])

\* C18: with dump_enabled and maps that were empty at the call, once
\* compute_live_regions has returned output.var_live_at and
\* output.var_drop_live_at list at every point exactly the variables live,
\* respectively drop-live, there, each once, and have no other entry.
DebugExportExact ==
    (Returned /\ output.dump_enabled) =>
        /\ ExportsExactly(output.var_live_at, FinalVarLiveAt)
        /\ ExportsExactly(output.var_drop_live_at, FinalVarDropLiveAt)

\* An export with two variables at one point, with a point of the graph
\* without entry, and with a drop-live variable.
DebugExportWitness ==
    /\ pc = "done"
    /\ output.dump_enabled
    /\ \E p \in DOMAIN output.var_live_at : Len(output.var_live_at[p]) >= 2
    /\ Endpoints \ DOMAIN output.var_live_at # {}

\* C19: while dump_enabled is false no step of the call writes
\* output.var_live_at or output.var_drop_live_at.
DebugSinkUntouched ==
    [][(~output.dump_enabled /\ pc' # "start") => output' = output]_vars

\* A call without export that found live and drop-live variables.
DebugSinkWitness ==
    /\ pc = "done"
    /\ ~output.dump_enabled
    /\ FinalVarLiveAt # {}
    /\ FinalVarDropLiveAt # {}
    /\ DOMAIN output.var_live_at = {}
    /\ DOMAIN output.var_drop_live_at = {}

\* C20: without uses and drop-uses compute_live_regions runs no round and
\* returns the empty vector, and without any fact init_region_live_at
\* returns the empty vector.
EmptyInput ==
    /\ (Returned /\ var_used = <<>> /\ var_drop_used = <<>>) =>
          /\ FinalRegionLiveAt = {}
          /\ rounds = 0
          /\ pc = "computed" => region_live_at = <<>>
          /\ Appended = region_live_at
    /\ (pc = "done" /\ \A i \in 1 .. Len(inputs) : inputs[i] = <<>>) =>
          region_live_at = <<>>

\* A call without uses and drop-uses whose other relations are not all
\* empty: a variable that drops a region, initialized before an edge.
EmptyInputWitness ==
    /\ pc = "done"
    /\ var_used = <<>>
    /\ var_drop_used = <<>>
    /\ var_drops_region # <<>>
    /\ \E t \in Range(var_maybe_initialized_on_exit) : \E e \in Edges :
          e[1] = t[2] /\ \E dr \in Range(var_drops_region) : dr[1] = t[1]

====
